---- MODULE Spec2Model ----
(***************************************************************************)
(* Room reservation core of gpwltl/AI_Repo.                                *)
(*                                                                         *)
(* ReservationRepository (server side, Prisma store) and                   *)
(* SQLiteReservationTool (client side, in-process lock map + fetch) of     *)
(* src/backend/domains/reservation/repositories/implementations/           *)
(* ReservationRepository.ts.                                               *)
(*                                                                         *)
(* Time is kept in minutes.  A Date value is an instant: day * 1440 +      *)
(* minute of the day, days being the days of June 2024.  All clocks are    *)
(* UTC, so that toISOString() and the local-time parse of                  *)
(* new Date("YYYY-MM-DDTHH:mm") name the same day.                         *)
(***************************************************************************)
EXTENDS Integers, Sequences, FiniteSets, TLC

VARIABLES
    store,               \* rows of prisma.reservation
    activeReservations,  \* SQLiteReservationTool.activeReservations (keys mapped to true)
    calls,               \* one record per createReservation invocation
    out                  \* what the last repository / tool query returned

vars == <<store, activeReservations, calls, out>>

-----------------------------------------------------------------------------
(* Bounds of the model *)

\* createReservation invocations that may run concurrently
NumCalls == 3
\* rows ReservationRepository.createReservation may insert in the query specification
MaxRes == 2
\* durations (hours) of a requested or stored reservation
Durations == {1, 2}
\* days of June 2024 a request or a row may fall on
Days == {1, 2}

-----------------------------------------------------------------------------
(* Dates and times: formatting and parsing *)

Digit == <<"0", "1", "2", "3", "4", "5", "6", "7", "8", "9">>

\* n.toString().padStart(2, '0') for 0 <= n <= 99
Pad2(n) == Digit[(n \div 10) + 1] \o Digit[(n % 10) + 1]

\* `${hour.toString().padStart(2, '0')}:00`
HourString(hour) == Pad2(hour) \o ":00"

\* "HH:mm" of a minute of the day
FormatTime(m) == Pad2(m \div 60) \o ":" \o Pad2(m % 60)

\* the minutes of the day a time string of the model may name (half-hour grid)
GridMinutes == { h * 60 + m : h \in 0..23, m \in {0, 30} }

TimeTable == [ m \in GridMinutes |-> FormatTime(m) ]

\* the minute of the day an "HH:mm" string denotes when parsed inside new Date(...)
ParseTime(s) == CHOOSE m \in GridMinutes : TimeTable[m] = s

\* 'YYYY-MM-DD' of a day of June 2024
DayString(d) == "2024-06-" \o Pad2(d)

\* the day of June 2024 a 'YYYY-MM-DD' string names
ParseDay(s) == CHOOSE d \in Days : DayString(d) = s

Instant(d, m) == d * 1440 + m

\* new Date(`${dateStr} ${time}`), new Date(`${dateStr}T${time}`)
NewDate(dateStr, time) == Instant(ParseDay(dateStr), ParseTime(time))

DayOf(t) == t \div 1440

MinuteOf(t) == t % 1440

\* date.toISOString().split('T')[0]
IsoDate(t) == DayString(DayOf(t))

-----------------------------------------------------------------------------
(* The store: prisma.reservation *)

\* private readonly AVAILABLE_ROOMS = [1, 4, 5, 6]
AVAILABLE_ROOMS == <<1, 4, 5, 6>>

RoomSet == { AVAILABLE_ROOMS[i] : i \in DOMAIN AVAILABLE_ROOMS }

Statuses == {"Confirmed", "Cancelled"}

\* the row prisma.reservation.create makes of the entity: the store assigns the id
CreatedRow(st, reservation) ==
    [ id |-> Cardinality(st) + 1,
      roomId |-> reservation.roomId,
      startTime |-> reservation.startTime,
      endTime |-> reservation.endTime,
      status |-> reservation.status ]

\* ReservationRepository.createReservation(reservation): the store after it
createReservation(st, reservation) == st \cup { CreatedRow(st, reservation) }

\* where: { startTime: { gte: start }, endTime: { lte: end } }
WhereWithin(r, start, end) == r.startTime >= start /\ r.endTime <= end

\* ReservationRepository.findReservationsByDateTime(targetDate, startHour, endHour)
findReservationsByDateTime(st, targetDate, startHour, endHour) ==
    LET dateStr == DayString(DayOf(targetDate))
        startDateTime == NewDate(dateStr, startHour)
        endDateTime == NewDate(dateStr, endHour)
    IN  { r \in st : WhereWithin(r, startDateTime, endDateTime) }

\* where: { AND: [ { startTime: { lte: endDateTime } }, { endTime: { gt: searchDateTime } } ] }
WhereAround(r, searchDateTime, endDateTime) ==
    r.startTime <= endDateTime /\ r.endTime > searchDateTime

\* isAvailable negated
RoomEntry_inverted(reservations, roomId) ==
    LET roomReservations == { r \in reservations : r.roomId = roomId }
    IN  [ roomId |-> roomId,
          isAvailable |-> (roomReservations # {}),
          conflictingReservations |-> roomReservations ]

\* the reservations not filtered by room
RoomEntry_unfiltered(reservations, roomId) ==
    [ roomId |-> roomId,
      isAvailable |-> (reservations = {}),
      conflictingReservations |-> reservations ]

\* reservations.filter(r => r.roomId === roomId), and the entry built from it
RoomEntry(reservations, roomId) ==
    LET roomReservations == { r \in reservations : r.roomId = roomId }
    IN  [ roomId |-> roomId,
          isAvailable |-> (roomReservations = {}),
          conflictingReservations |-> roomReservations ]

\* ReservationRepository.findAvailableRooms(searchDate, startTime)
findAvailableRooms(st, searchDate, startTime) ==
    LET searchDateTime == NewDate(IsoDate(searchDate), startTime)
        endDateTime == searchDateTime + 60
        reservations == { r \in st : WhereAround(r, searchDateTime, endDateTime) }
    IN  [ i \in DOMAIN AVAILABLE_ROOMS |-> RoomEntry(reservations, AVAILABLE_ROOMS[i]) ]

-----------------------------------------------------------------------------
(* SQLiteReservationTool.findNextAvailable *)

\* an optional number is <<>> when absent (undefined) and <<n>> when given
Undefined == <<>>

\* no error message
NoError == "none"

\* JavaScript truthiness of an optional number
Truthy(x) == x # Undefined /\ x[1] # 0

\* const timeRanges = { morning: ..., afternoon: ..., all: ... }
timeRanges ==
    [ morning |-> [ start |-> 9, end |-> 12 ],
      afternoon |-> [ start |-> 13, end |-> 18 ],
      all |-> [ start |-> 9, end |-> 18 ] ]

\* an unknown name falls back to the morning
ResolveRange_morning(timeRange) ==
    IF timeRange \in DOMAIN timeRanges THEN timeRanges[timeRange] ELSE timeRanges.morning

\* timeRanges[options.timeRange] || timeRanges.all
ResolveRange(timeRange) ==
    IF timeRange \in DOMAIN timeRanges THEN timeRanges[timeRange] ELSE timeRanges.all

\* const rooms = [1, 4, 5, 6]
rooms == <<1, 4, 5, 6>>

\* the slot pushed for one room and one hour
Slot(targetDate, roomId, hour) ==
    [ date |-> IsoDate(targetDate),
      roomId |-> roomId,
      startTime |-> HourString(hour),
      endTime |-> HourString(hour + 1) ]

\* if (options.preferredRoom && options.preferredRoom !== roomId) continue
SkipRoom(preferredRoom, roomId) == Truthy(preferredRoom) /\ preferredRoom[1] # roomId

\* defaultSlots: for each room not skipped, one slot per hour of the range, in order
DefaultSlots(targetDate, range, preferredRoom) ==
    LET hours == range.end - range.start
        every == [ k \in 1..(Len(rooms) * hours) |->
                     Slot(targetDate, rooms[((k - 1) \div hours) + 1],
                          range.start + ((k - 1) % hours)) ]
        Kept(slot) == ~SkipRoom(preferredRoom, slot.roomId)
    IN  SelectSeq(every, Kept)

\* the start times not compared: any reservation of the room blocks the slot
SlotReserved_roomOnly(reservedSlots, slot) ==
    \E reserved \in reservedSlots : reserved.roomId = slot.roomId

\* reservedSlots.some(reserved => reserved.roomId === slot.roomId &&
\*                                reserved.startTime === slot.startTime)
SlotReserved(reservedSlots, slot) ==
    \E reserved \in reservedSlots :
        reserved.roomId = slot.roomId /\ reserved.startTime = slot.startTime

\* the slots returned, from the default slots and result.data
\* (Array.isArray(result.data) ? result.data : [])
AvailableSlots(defaultSlots, isArray, data) ==
    LET reservedSlots == IF isArray THEN data ELSE {}
        Free(slot) == ~SlotReserved(reservedSlots, slot)
    IN  IF reservedSlots = {} THEN defaultSlots ELSE SelectSeq(defaultSlots, Free)

Failure(message) == [ availableSlots |-> <<>>, success |-> FALSE, error |-> message ]

\* what DateParsingTool.parseDateString gave: it threw, or it returned a date
ParseThrew == [ threw |-> TRUE, time |-> 0 ]
Parsed(t) == [ threw |-> FALSE, time |-> t ]

\* typeof options.startFrom === 'string'
\*     ? DateParsingTool.parseDateString(options.startFrom) : options.startFrom
TargetDate(options, parsed) ==
    IF options.startFrom.kind = "string" THEN parsed.time ELSE options.startFrom.time

\* how the try block ends: a throw or a return, and the fetch calls it issued
Throw(message, fetches) ==
    [ thrown |-> TRUE, message |-> message, value |-> Failure(NoError), fetches |-> fetches ]
Return(value, fetches) ==
    [ thrown |-> FALSE, message |-> "", value |-> value, fetches |-> fetches ]

\* the try block of findNextAvailable, given what parseDateString, validateDate
\* and fetch gave
TryBlock(options, parsed, validationError, fetched) ==
    IF options.startFrom.kind = "string" /\ parsed.threw
    THEN Throw("invalid date string", 0)
    ELSE IF validationError # NoError THEN Return(Failure(validationError), 0)
    ELSE IF fetched.kind = "rejected" THEN Throw(fetched.message, 1)
    ELSE IF ~fetched.ok THEN Throw("availability check failed", 1)
    ELSE Return([ availableSlots |->
                      AvailableSlots(DefaultSlots(TargetDate(options, parsed),
                                                  ResolveRange(options.timeRange),
                                                  options.preferredRoom),
                                     fetched.isArray, fetched.data),
                  success |-> TRUE,
                  error |-> NoError ], 1)

\* no catch block: what the try block throws reaches the caller
Catch_rethrown(attempt) ==
    [ threw |-> attempt.thrown, value |-> attempt.value, fetches |-> attempt.fetches ]

\* catch (error) { return { availableSlots: [], success: false, error: error.message } }
Catch(attempt) ==
    [ threw |-> FALSE,
      value |-> IF attempt.thrown THEN Failure(attempt.message) ELSE attempt.value,
      fetches |-> attempt.fetches ]

\* the call as its caller sees it: whether it threw, its value, its fetch calls
Outcome(options, parsed, validationError, fetched) ==
    Catch(TryBlock(options, parsed, validationError, fetched))

\* findNextAvailable(options), given what parseDateString, validateDate and fetch gave
findNextAvailable(options, parsed, validationError, fetched) ==
    Outcome(options, parsed, validationError, fetched).value

-----------------------------------------------------------------------------
(* SQLiteReservationTool.createReservation: the lock key and the request *)

WeekDays == <<"Sat", "Sun", "Mon", "Tue", "Wed", "Thu", "Fri">>

\* String(date) of a Date object, as a template literal renders it
DateToString(t) ==
    WeekDays[((DayOf(t) - 1) % 7) + 1] \o " Jun " \o Pad2(DayOf(t)) \o " 2024 "
        \o FormatTime(MinuteOf(t)) \o ":00 GMT+0000 (Coordinated Universal Time)"

\* info.date is a string or a Date: [kind, text, time]
DateOfString(text) == [ kind |-> "string", text |-> text, time |-> 0 ]
DateOfObject(t) == [ kind |-> "Date", text |-> "", time |-> t ]

\* `${info.date}`
DateText(date) == IF date.kind = "string" THEN date.text ELSE DateToString(date.time)

\* const reservationKey = `${info.date}_${info.startTime}_${info.roomId}`
reservationKey(info) ==
    DateText(info.date) \o "_" \o info.startTime \o "_" \o ToString(info.roomId)

\* new Date(info.date) is a valid date (toISOString() throws a RangeError otherwise)
ValidDate(date) == date.kind = "Date" \/ \E d \in Days : DayString(d) = date.text

\* typeof info.date === 'string' ? new Date(info.date) : info.date
ToDate(date) == IF date.kind = "string" THEN Instant(ParseDay(date.text), 0) ELSE date.time

\* const formattedDate = date.toISOString().split('T')[0]
formattedDate(info) == IsoDate(ToDate(info.date))

\* the lock check left out
LockHeld_never(active, key) == FALSE

\* this.activeReservations.get(reservationKey)
LockHeld(active, key) == key \in active

\* this.activeReservations.set(reservationKey, true)
SetLock(active, key) == active \cup {key}

\* the key left in the map
ReleaseLock_leaked(active, key) == active

\* finally { this.activeReservations.delete(reservationKey) }
ReleaseLock(active, key) == active \ {key}

-----------------------------------------------------------------------------
(* Inputs *)

Calls == 1..NumCalls

\* the reference request: room 1 on 2024-06-01 at 09:00 for one hour
BaseInfo ==
    [ date |-> DateOfString(DayString(1)), startTime |-> "09:00", duration |-> 1, roomId |-> 1 ]

\* the booking requests: the reference request, and the requests that differ from
\* it in one field: the same day given as a Date object, a string that names no
\* date, the next hour, a longer duration, a room that is not configured
Infos ==
    { BaseInfo,
      [ BaseInfo EXCEPT !.date = DateOfObject(Instant(1, 0)) ],
      [ BaseInfo EXCEPT !.date = DateOfString("soon") ],
      [ BaseInfo EXCEPT !.startTime = "10:00" ],
      [ BaseInfo EXCEPT !.roomId = 2 ] }
    \cup { [ BaseInfo EXCEPT !.duration = d ] : d \in Durations }

NoInfo == [ date |-> DateOfString(""), startTime |-> "", duration |-> 0, roomId |-> 0 ]

IdleCall ==
    [ pc |-> "idle", info |-> NoInfo, result |-> "none", how |-> "none",
      fetches |-> 0, storeCalls |-> 0 ]

-----------------------------------------------------------------------------
(* The initial state: an empty table, no lock, no invocation *)

Init ==
    /\ store = {}
    /\ activeReservations = {}
    /\ calls = [ p \in Calls |-> IdleCall ]
    /\ out = [ op |-> "none" ]

-----------------------------------------------------------------------------
(* SQLiteReservationTool.createReservation, one action per run between awaits *)

\* the response's ok flag: the handler answers 2xx only when it created the reservation
ResponseOk(result) == result = "Created"

\* every error caught and swallowed: the call returns instead of throwing
HowSettled_swallowed(result) == "returned"

\* how the promise settles: the throws of lines 192 and 199 and a rejected fetch
\* are rethrown by catch (error) { throw error }; a response that is not ok
\* throws at line 222; after an ok response responseData.success is returned
HowSettled(result) ==
    IF result \in { "InFlight", "InvalidDate", "Network" } THEN "threw"
    ELSE IF ~ResponseOk(result) THEN "threw"
    ELSE "returned"

\* the invocation ends: the finally block has run, the promise settles with result
Settled(call, result) ==
    [ call EXCEPT !.pc = "done", !.result = result, !.how = HowSettled(result) ]

\* Entry up to the first await: the lock check, the lock, the date, the fetch.
\* A throw on the way runs catch and finally before the promise rejects.
Enter(p, info) ==
    LET key == reservationKey(info)
        call == [ calls[p] EXCEPT !.info = info ]
    IN  /\ calls[p].pc = "idle"
        /\ \A q \in Calls : q < p => calls[q].pc # "idle"
        /\ IF LockHeld(activeReservations, key)
           THEN /\ calls' = [ calls EXCEPT ![p] = Settled(call, "InFlight") ]
                /\ activeReservations' = ReleaseLock(activeReservations, key)
           ELSE IF ~ValidDate(info.date)
           THEN /\ calls' = [ calls EXCEPT ![p] = Settled(call, "InvalidDate") ]
                /\ activeReservations' =
                       ReleaseLock(SetLock(activeReservations, key), key)
           ELSE /\ calls' = [ calls EXCEPT ![p] =
                                 [ call EXCEPT !.pc = "fetching", !.fetches = @ + 1 ] ]
                /\ activeReservations' = SetLock(activeReservations, key)
        /\ UNCHANGED <<store, out>>

\* await fetch(...) rejects: the request never reached the server
FetchRejects(p) ==
    /\ calls[p].pc = "fetching"
    /\ calls' = [ calls EXCEPT ![p] = Settled(@, "Network") ]
    /\ activeReservations' = ReleaseLock(activeReservations, reservationKey(calls[p].info))
    /\ UNCHANGED <<store, out>>

\* the response has arrived: !result.ok throws, otherwise responseData.success is
\* returned; either way the finally block deletes the key
Complete(p) ==
    /\ calls[p].pc = "responded"
    /\ calls' = [ calls EXCEPT ![p] = Settled(@, @.result) ]
    /\ activeReservations' = ReleaseLock(activeReservations, reservationKey(calls[p].info))
    /\ UNCHANGED <<store, out>>

-----------------------------------------------------------------------------
(* POST /api/reservation/create: the booking coordinator behind the fetch *)

\* the reservation drafted from the request body
Draft(info) ==
    LET start == NewDate(formattedDate(info), info.startTime)
    IN  [ roomId |-> info.roomId,
          startTime |-> start,
          endTime |-> start + info.duration * 60,
          status |-> "Confirmed" ]

\* the entry of findAvailableRooms' answer for the requested room
RoomCheck(st, info) ==
    LET answer == findAvailableRooms(st, ToDate(DateOfString(formattedDate(info))),
                                     info.startTime)
    IN  answer[CHOOSE i \in DOMAIN answer : answer[i].roomId = info.roomId]

Responded(call, result) == [ call EXCEPT !.pc = "responded", !.result = result ]

\* validation, then the availability check for the requested room and slot
ApiCheck(p) ==
    LET info == calls[p].info
    IN  /\ calls[p].pc = "fetching"
        /\ IF info.roomId \notin RoomSet
           THEN calls' = [ calls EXCEPT ![p] = Responded(@, "InvalidInput") ]
           ELSE IF ~RoomCheck(store, info).isAvailable
           THEN calls' = [ calls EXCEPT ![p] =
                             Responded([ @ EXCEPT !.storeCalls = @ + 1 ], "Overlap") ]
           ELSE calls' = [ calls EXCEPT ![p] =
                             [ @ EXCEPT !.pc = "creating", !.storeCalls = @ + 1 ] ]
        /\ UNCHANGED <<store, activeReservations, out>>

\* the room was free at the check: the store creates the reservation
ApiCreate(p) ==
    /\ calls[p].pc = "creating"
    /\ store' = createReservation(store, Draft(calls[p].info))
    /\ calls' = [ calls EXCEPT ![p] =
                     Responded([ @ EXCEPT !.storeCalls = @ + 1 ], "Created") ]
    /\ UNCHANGED <<activeReservations, out>>

\* prisma.reservation.create throws: "Failed to create reservation: ..."
ApiCreateFails(p) ==
    /\ calls[p].pc = "creating"
    /\ calls' = [ calls EXCEPT ![p] =
                     Responded([ @ EXCEPT !.storeCalls = @ + 1 ], "Persistence") ]
    /\ UNCHANGED <<store, activeReservations, out>>

Next ==
    \/ \E p \in Calls, info \in Infos : Enter(p, info)
    \/ \E p \in Calls : FetchRejects(p)
    \/ \E p \in Calls : Complete(p)
    \/ \E p \in Calls : ApiCheck(p)
    \/ \E p \in Calls : ApiCreate(p)
    \/ \E p \in Calls : ApiCreateFails(p)

Spec == Init /\ [][Next]_vars

\* the pending create call of p moves on: the handler runs a step, the fetch
\* rejects, or the response reaches the caller and the invocation ends
CreateCallSettles(p) ==
    ApiCheck(p) \/ ApiCreate(p) \/ ApiCreateFails(p) \/ FetchRejects(p) \/ Complete(p)

\* every create API call eventually resolves or rejects
LiveSpec == Spec /\ \A p \in Calls : WF_vars(CreateCallSettles(p))

-----------------------------------------------------------------------------
(* The repository on its own: rows inserted, then queried *)

\* rooms a stored reservation may be of
RowRooms == { 1, 4 }

\* the intervals a stored reservation may have: on the first day 09:00-10:00,
\* 09:30-10:30 (off the hourly grid) and 10:00-12:00 (two slots), and 09:00-10:00
\* on the second day
RowIntervals ==
    { [ day |-> 1, start |-> "09:00", hours |-> 1 ],
      [ day |-> 1, start |-> "09:30", hours |-> 1 ],
      [ day |-> 1, start |-> "10:00", hours |-> 2 ],
      [ day |-> 2, start |-> "09:00", hours |-> 1 ] }

\* the entities createReservation may be given
Entities ==
    { [ roomId |-> r,
        startTime |-> Instant(i.day, ParseTime(i.start)),
        endTime |-> Instant(i.day, ParseTime(i.start)) + i.hours * 60,
        status |-> s ] :
        r \in RowRooms, i \in RowIntervals, s \in Statuses }

\* a query leaves every variable but out alone, so a behaviour makes one query
NotQueried == out.op \in { "none", "createReservation" }

\* the dates a query may be about (midnight of a day)
QueryDates == { Instant(d, 0) : d \in Days }

\* the times of the day a query may name
QueryTimes == { "08:00", "09:00", "09:30", "10:00", "11:00", "12:00" }

RepoCreate(reservation) ==
    /\ NotQueried
    /\ Cardinality(store) < MaxRes
    /\ store' = createReservation(store, reservation)
    /\ out' = [ op |-> "createReservation", result |-> CreatedRow(store, reservation) ]
    /\ UNCHANGED <<activeReservations, calls>>

FindReservationsByDateTime(targetDate, startHour, endHour) ==
    /\ NotQueried
    /\ ParseTime(startHour) < ParseTime(endHour)
    /\ out' = [ op |-> "findReservationsByDateTime",
                targetDate |-> targetDate, startHour |-> startHour, endHour |-> endHour,
                result |-> findReservationsByDateTime(store, targetDate, startHour, endHour) ]
    /\ UNCHANGED <<store, activeReservations, calls>>

FindAvailableRooms(searchDate, startTime) ==
    /\ NotQueried
    /\ out' = [ op |-> "findAvailableRooms",
                searchDate |-> searchDate, startTime |-> startTime,
                result |-> findAvailableRooms(store, searchDate, startTime) ]
    /\ UNCHANGED <<store, activeReservations, calls>>

RepoNext ==
    \/ \E reservation \in Entities : RepoCreate(reservation)
    \/ \E d \in QueryDates, s \in QueryTimes, e \in QueryTimes :
          FindReservationsByDateTime(d, s, e)
    \/ \E d \in QueryDates, s \in QueryTimes : FindAvailableRooms(d, s)

RepoSpec == Init /\ [][RepoNext]_vars

-----------------------------------------------------------------------------
(* findNextAvailable on its own: options, and what the API answered *)

\* entries result.data may list
MaxReserved == 2

TimeRangeNames == { "morning", "afternoon", "all", "evening" }

\* no preference, 0, two configured rooms, a room that is not configured
PreferredRooms == { Undefined, <<0>>, <<1>>, <<4>>, <<2>> }

\* an entry of result.data: a room and the "HH:mm" strings of its interval
ReservedEntries ==
    { [ roomId |-> r, startTime |-> FormatTime(m), endTime |-> FormatTime(m + h * 60) ] :
        r \in RowRooms,
        m \in { ParseTime("09:00"), ParseTime("09:30"), ParseTime("13:00") },
        h \in Durations }

\* startFrom: a Date object, or a string for parseDateString
StartFroms == { DateOfObject(t) : t \in QueryDates } \cup { DateOfString("tomorrow") }

Options ==
    [ timeRange : TimeRangeNames, preferredRoom : PreferredRooms, startFrom : StartFroms ]

\* what parseDateString may give for startFrom (it is not called for a Date object)
ParseOutcomes(startFrom) ==
    IF startFrom.kind = "string"
    THEN { ParseThrew } \cup { Parsed(t) : t \in QueryDates }
    ELSE { Parsed(startFrom.time) }

\* what fetch gave: a rejection, or a response with ok and result.data
Rejected == [ kind |-> "rejected", message |-> "Failed to fetch", ok |-> FALSE,
              isArray |-> FALSE, data |-> {} ]

Response(ok, isArray, data) ==
    [ kind |-> "response", message |-> "", ok |-> ok, isArray |-> isArray, data |-> data ]

\* fetch was not called
NoFetch == [ kind |-> "none", message |-> "", ok |-> FALSE, isArray |-> FALSE, data |-> {} ]

Fetched ==
    { Rejected, Response(FALSE, FALSE, {}), Response(TRUE, FALSE, {}) }
    \cup { Response(TRUE, TRUE, data) :
             data \in { d \in SUBSET ReservedEntries : Cardinality(d) <= MaxReserved } }

FindNextAvailable(options, parsed, validationError, fetched) ==
    /\ NotQueried
    /\ (Outcome(options, parsed, validationError, fetched).fetches = 0) = (fetched = NoFetch)
    /\ out' = [ op |-> "findNextAvailable", options |-> options, parsed |-> parsed,
                validationError |-> validationError, fetched |-> fetched,
                threw |-> Outcome(options, parsed, validationError, fetched).threw,
                fetches |-> Outcome(options, parsed, validationError, fetched).fetches,
                result |-> findNextAvailable(options, parsed, validationError, fetched) ]
    /\ UNCHANGED <<store, activeReservations, calls>>

SlotNext ==
    /\ NotQueried
    /\ \E options \in Options, fetched \in Fetched \cup { NoFetch } :
           \E parsed \in ParseOutcomes(options.startFrom) :
               \/ FindNextAvailable(options, parsed, NoError, fetched)
               \/ /\ ~parsed.threw
                  /\ FindNextAvailable(options, parsed, "invalid date", fetched)

SlotSpec == Init /\ [][SlotNext]_vars

-----------------------------------------------------------------------------
(* Properties of the booking coordinator, checked under Spec *)

\* overlaps(a, b) of half-open intervals: a.start < b.end AND b.start < a.end
Overlaps(aStart, aEnd, bStart, bEnd) == aStart < bEnd /\ bStart < aEnd

Key(p) == reservationKey(calls[p].info)

\* past the lock check, the fetch of /api/reservation/create not yet settled
AwaitingCreate(p) == calls[p].pc \in { "fetching", "creating" }

\* the lock was acquired and the finally block has not run yet
Running(p) == calls[p].pc \in { "fetching", "creating", "responded" }

Done(p) == calls[p].pc = "done"

\* the request names a date and a configured room
ValidRequest(p) == ValidDate(calls[p].info.date) /\ calls[p].info.roomId \in RoomSet

\* C1: no double booking: the store never holds two Confirmed reservations of
\* the same room whose half-open intervals overlap, whatever createReservation
\* attempts were made and however they interleaved.
C1_NoDoubleBooking ==
    \A a \in store, b \in store :
        (a.id # b.id /\ a.roomId = b.roomId
            /\ a.status = "Confirmed" /\ b.status = "Confirmed")
        => ~Overlaps(a.startTime, a.endTime, b.startTime, b.endTime)

\* C2: mutual exclusion per booking key: no two createReservation calls with the
\* same key are at once past the lock check and awaiting the create call.
C2_MutualExclusion ==
    \A p \in Calls, q \in Calls :
        (p # q /\ AwaitingCreate(p) /\ AwaitingCreate(q)) => Key(p) # Key(q)

\* the only calls made so far are p and q, they are valid requests with the same
\* key, and both have completed
PairCompleted(p, q) ==
    /\ p < q
    /\ Done(p) /\ Done(q)
    /\ \A o \in Calls \ {p, q} : calls[o].pc = "idle"
    /\ Key(p) = Key(q)
    /\ ValidRequest(p) /\ ValidRequest(q)

StoreOrNetworkFailure(p) == calls[p].result \in { "Network", "Persistence" }

\* exactly one of p and q created its reservation, the other ended in a conflict
OneCreatedOtherConflict(p, q) ==
    \E w \in {p, q}, l \in {p, q} :
        /\ w # l
        /\ calls[w].result = "Created"
        /\ calls[l].result \in { "InFlight", "Overlap" }

C4_LockCleanup ==
    /\ [][ \A p \in Calls :
              (~Done(p) /\ calls'[p].pc = "done")
              => reservationKey(calls'[p].info) \notin activeReservations' ]_vars
    /\ [](\A k \in activeReservations : \E p \in Calls : Running(p) /\ Key(p) = k)

\* C4 happens: a call failed at the store step, and a later request for the
\* same key acquired the lock
C4_Witness ==
    \E p \in Calls, q \in Calls :
        /\ p < q
        /\ Done(p) /\ calls[p].result = "Persistence"
        /\ Key(q) = Key(p)
        /\ calls[q].pc = "fetching"
        /\ \A o \in Calls \ {p, q} : calls[o].pc = "idle"

\* C5: a createReservation request for a room that is not configured fails
\* with an invalid-input error, and no create-API call and no store call is
\* made for it.
C5_InvalidRoomNoCall ==
    \A p \in Calls :
        (calls[p].pc # "idle" /\ ValidDate(calls[p].info.date)
            /\ calls[p].info.roomId \notin RoomSet)
        => /\ calls[p].fetches = 0
           /\ calls[p].storeCalls = 0
           /\ Done(p) => calls[p].result = "InvalidInput"

\* C11: a createReservation call that finds its key locked fails at once: in
\* the very step that takes it out of idle it ends with the in-flight error,
\* having waited for nothing, issued no create-API call and caused no store
\* call; and a call that ended in flight never issued one.
C11_LockedFailsAtOnce ==
    /\ [][ \A p \in Calls :
              ( /\ calls[p].pc = "idle"
                /\ calls'[p].pc # "idle"
                /\ reservationKey(calls'[p].info) \in activeReservations )
              => /\ calls'[p].pc = "done"
                 /\ calls'[p].result = "InFlight"
                 /\ calls'[p].fetches = 0
                 /\ calls'[p].storeCalls = 0
                 /\ store' = store ]_vars
    /\ [](\A p \in Calls :
             calls[p].result = "InFlight"
             => Done(p) /\ calls[p].fetches = 0 /\ calls[p].storeCalls = 0)

\* C11 happens: a call was rejected as in flight while the holder of the key is
\* still awaiting its create call
C11_Witness ==
    \E p \in Calls, q \in Calls :
        /\ p # q
        /\ AwaitingCreate(p)
        /\ Key(q) = Key(p)
        /\ Done(q) /\ calls[q].result = "InFlight"
        /\ calls[q].fetches = 0

\* C13: store failures are surfaced and never retried: an invocation of
\* createReservation issues at most one create call (and the handler behind it
\* at most one check and one create on the store), and when that call fails (the
\* fetch rejects, or the response is not ok) the invocation ends by throwing,
\* never by returning a value.
C13_FailureSurfaced ==
    \A p \in Calls :
        /\ calls[p].fetches <= 1
        /\ calls[p].storeCalls <= 2
        /\ (Done(p) /\ calls[p].fetches = 1 /\ ~ResponseOk(calls[p].result))
               => calls[p].how = "threw"
        /\ (Done(p) /\ calls[p].how = "returned") => calls[p].result = "Created"

\* C13 happens: the store threw on create, and the invocation ended by throwing
\* after its single create call
C13_Witness ==
    \E p \in Calls :
        /\ Done(p)
        /\ calls[p].result = "Persistence"
        /\ calls[p].fetches = 1
        /\ calls[p].how = "threw"

\* C17: lock-map invariant: a key is in activeReservations if and only if some
\* createReservation call that acquired the lock for it has not completed yet;
\* a call rejected because the key was locked leaves the map as it was, and the
\* key stays locked until its holder completes.
C17_LockMapInvariant ==
    activeReservations = { Key(p) : p \in { q \in Calls : Running(q) } }

\* the keys of the requests of the model
Keys == { reservationKey(info) : info \in Infos }

\* C18: liveness of lock release: every create API call eventually resolving or
\* rejecting, every createReservation call that was started eventually returns
\* or throws, every key that is locked is eventually released, and the lock map
\* is empty whenever no call is in progress.
C18_LocksReleased ==
    /\ \A p \in Calls : Running(p) ~> Done(p)
    /\ \A k \in Keys : (k \in activeReservations) ~> (k \notin activeReservations)
    /\ []((\A p \in Calls : ~Running(p)) => activeReservations = {})

\* C18 happens: every call has ended, one of them after holding the lock through
\* its create call, and the lock map is empty
C18_Witness ==
    /\ \A p \in Calls : Done(p)
    /\ \E p \in Calls : calls[p].fetches = 1 /\ calls[p].result = "Created"
    /\ activeReservations = {}

\* the same day, start time and room are requested
SameSlot(p, q) ==
    /\ formattedDate(calls[p].info) = formattedDate(calls[q].info)
    /\ calls[p].info.startTime = calls[q].info.startTime
    /\ calls[p].info.roomId = calls[q].info.roomId

\* C19: two createReservation calls for the same calendar date, start time and
\* room use the same lock key, however the date is supplied (a string or a Date
\* object).
C19_SameSlotSameKey ==
    \A p \in Calls, q \in Calls :
        ( /\ calls[p].pc # "idle" /\ calls[q].pc # "idle"
          /\ ValidDate(calls[p].info.date) /\ ValidDate(calls[q].info.date)
          /\ SameSlot(p, q) )
        => Key(p) = Key(q)

-----------------------------------------------------------------------------
(* Properties of the repository queries, checked under RepoSpec *)

\* the window [s, s + 1h) findAvailableRooms was asked about
WindowStart == Instant(DayOf(out.searchDate), ParseTime(out.startTime))
WindowEnd == WindowStart + 60

\* row r intersects the queried one-hour window (half-open)
InWindow(r) == Overlaps(r.startTime, r.endTime, WindowStart, WindowEnd)

AllConfirmed == \A r \in store : r.status = "Confirmed"

\* C6: availability round trip with half-open overlap: findAvailableRooms lists
\* a stored reservation [a, b) of room r as a conflict of r, and reports r
\* unavailable, if and only if a < s + 1h and s < b for the queried window
\* [s, s + 1h); a window that only touches the reservation, and a disjoint one,
\* leave the room available.  (Stated for stores of Confirmed reservations.)
C6_HalfOpenRoundTrip ==
    (out.op = "findAvailableRooms" /\ AllConfirmed) =>
        \A i \in DOMAIN out.result :
            LET entry == out.result[i]
                hits == { r \in store : r.roomId = entry.roomId /\ InWindow(r) }
            IN  /\ entry.conflictingReservations = hits
                /\ entry.isAvailable <=> (hits = {})

\* C7: findReservationsByDateTime(date, startHour, endHour) returns exactly the
\* stored reservations whose interval intersects [startHour, endHour) on that
\* date, those that only partly overlap the window included.
C7_FindByWindowIntersects ==
    out.op = "findReservationsByDateTime" =>
        LET s == Instant(DayOf(out.targetDate), ParseTime(out.startHour))
            e == Instant(DayOf(out.targetDate), ParseTime(out.endHour))
        IN  out.result = { r \in store : Overlaps(r.startTime, r.endTime, s, e) }

\* C8: Cancelled reservations never make a room unavailable: if room r has
\* reservations overlapping the queried window and every one of them is
\* Cancelled, findAvailableRooms reports r with isAvailable = TRUE.  (Stated for
\* rooms none of whose reservations begins at the very end of the window.)
C8_CancelledNeverBlocks ==
    out.op = "findAvailableRooms" =>
        \A i \in DOMAIN out.result :
            LET entry == out.result[i]
                mine == { r \in store : r.roomId = entry.roomId }
            IN  ( /\ \E r \in mine : InWindow(r)
                  /\ \A r \in mine : InWindow(r) => r.status = "Cancelled"
                  /\ \A r \in mine : r.startTime # WindowEnd )
                => entry.isAvailable

\* C12: with an empty reservation store, findAvailableRooms returns, for any
\* date and start time, the configured rooms 1, 4, 5 and 6, each with
\* isAvailable = TRUE and an empty conflictingReservations list.
C12_EmptyStoreAllAvailable ==
    (out.op = "findAvailableRooms" /\ store = {}) =>
        /\ [ i \in DOMAIN out.result |-> out.result[i].roomId ] = <<1, 4, 5, 6>>
        /\ \A i \in DOMAIN out.result :
               /\ out.result[i].isAvailable
               /\ out.result[i].conflictingReservations = {}

\* C12 happens: a query on the second day at 10:00 against the empty store
C12_Witness ==
    /\ out.op = "findAvailableRooms"
    /\ store = {}
    /\ out.searchDate = Instant(2, 0)
    /\ out.startTime = "10:00"
    /\ Len(out.result) = 4

\* C15: findAvailableRooms returns exactly one entry per configured room (1, 4,
\* 5, 6); an entry has isAvailable = TRUE iff its conflictingReservations list
\* is empty; and a conflict list holds only stored reservations of the entry's
\* own room, so a reservation of one room never makes another unavailable.
C15_OneEntryPerRoom ==
    out.op = "findAvailableRooms" =>
        /\ [ i \in DOMAIN out.result |-> out.result[i].roomId ] = <<1, 4, 5, 6>>
        /\ \A i \in DOMAIN out.result :
               LET entry == out.result[i]
               IN  /\ entry.isAvailable <=> (entry.conflictingReservations = {})
                   /\ entry.conflictingReservations \subseteq store
                   /\ \A r \in entry.conflictingReservations : r.roomId = entry.roomId
                   /\ (\A r \in store : r.roomId # entry.roomId) => entry.isAvailable

\* C15 happens: room 1 is booked in the queried hour and room 4 is not; room 1
\* is reported unavailable and room 4 available
C15_Witness ==
    /\ out.op = "findAvailableRooms"
    /\ \E r \in store : r.roomId = 1 /\ InWindow(r)
    /\ \A r \in store : r.roomId = 1
    /\ ~out.result[1].isAvailable
    /\ out.result[2].roomId = 4 /\ out.result[2].isAvailable

-----------------------------------------------------------------------------
(* Properties of findNextAvailable, checked under SlotSpec *)

\* findNextAvailable returned normally, after an ok response
Answered == out.op = "findNextAvailable" /\ out.result.success

\* result.data as the tool reads it
ReservedOf(fetched) == IF fetched.isArray THEN fetched.data ELSE {}

\* the rooms slots are generated for
SlotRooms(preferredRoom) ==
    { rooms[i] : i \in DOMAIN rooms } \cap
        (IF Truthy(preferredRoom) THEN { preferredRoom[1] } ELSE { rooms[i] : i \in DOMAIN rooms })

\* the hour window a range name stands for
RangeStart(name) == IF name = "afternoon" THEN 13 ELSE 9
RangeEnd(name) == IF name = "morning" THEN 12 ELSE 18

\* one candidate slot per room and hour of the range
Candidates(options) ==
    { [ date |-> DayString(DayOf(TargetDate(options, out.parsed))),
        roomId |-> r,
        startTime |-> FormatTime(h * 60),
        endTime |-> FormatTime((h + 1) * 60) ] :
        r \in SlotRooms(options.preferredRoom),
        h \in RangeStart(options.timeRange)..(RangeEnd(options.timeRange) - 1) }

Returned == { out.result.availableSlots[i] : i \in DOMAIN out.result.availableSlots }

\* C9: a reservation off the hourly grid, or spanning several slots, blocks
\* every slot of its room it intersects: no returned slot [h, h + 1) of room r
\* intersects a reserved interval of room r.
C9_SlotsAvoidReserved ==
    Answered =>
        \A slot \in Returned, reserved \in ReservedOf(out.fetched) :
            reserved.roomId = slot.roomId =>
                ~Overlaps(ParseTime(slot.startTime), ParseTime(slot.endTime),
                          ParseTime(reserved.startTime), ParseTime(reserved.endTime))

\* the one entry of result.data names the room and start time of a candidate
OneMatching(options, data) ==
    /\ Cardinality(data) = 1
    /\ \E reserved \in data, c \in Candidates(options) :
           reserved.roomId = c.roomId /\ reserved.startTime = c.startTime

\* C10: with no reservation in result.data, findNextAvailable returns exactly
\* one slot per (room, hour) of the resolved range, |rooms| x (rangeEnd -
\* rangeStart) slots, the rooms being the configured rooms, or the preferred
\* room alone when one is given; with exactly one reservation, whose (roomId,
\* startTime) is a candidate's, it returns the candidates less exactly that slot.
C10_SlotCount ==
    Answered =>
        LET options == out.options
            data == ReservedOf(out.fetched)
            hours == RangeEnd(options.timeRange) - RangeStart(options.timeRange)
        IN  /\ data = {} =>
                   /\ Returned = Candidates(options)
                   /\ Len(out.result.availableSlots)
                          = Cardinality(SlotRooms(options.preferredRoom)) * hours
            /\ OneMatching(options, data) =>
                   /\ Returned =
                          { c \in Candidates(options) :
                              \A reserved \in data :
                                  ~(reserved.roomId = c.roomId
                                      /\ reserved.startTime = c.startTime) }
                   /\ Len(out.result.availableSlots)
                          = Cardinality(SlotRooms(options.preferredRoom)) * hours - 1

\* C10 happens: all rooms, the whole day, one reservation on a candidate: 35 of
\* the 36 candidates are returned
C10_Witness ==
    /\ Answered
    /\ out.options.preferredRoom = Undefined
    /\ out.options.timeRange = "all"
    /\ OneMatching(out.options, ReservedOf(out.fetched))
    /\ Len(out.result.availableSlots) = 35


\* the start times of the slots of the hours [first, last)
HourWindow(first, last) == { HourString(h) : h \in first..(last - 1) }

\* the window of the three range names
NamedWindow(name) ==
    CASE name = "morning" -> HourWindow(9, 12)
      [] name = "afternoon" -> HourWindow(13, 18)
      [] name = "all" -> HourWindow(9, 18)
      [] OTHER -> {}

C16_PreferredRoomOnly ==
    (Answered /\ out.options.preferredRoom # Undefined) =>
        LET preferredRoom == out.options.preferredRoom[1]
            without == findNextAvailable([ out.options EXCEPT !.preferredRoom = Undefined ],
                                         out.parsed, out.validationError, out.fetched)
            OfRoom(slot) == slot.roomId = preferredRoom
        IN  /\ \A slot \in Returned : slot.roomId = preferredRoom
            /\ out.result.availableSlots = SelectSeq(without.availableSlots, OfRoom)

\* C20: findNextAvailable never throws: when date validation fails it returns
\* {availableSlots: [], success: false, error} without issuing any API call;
\* when date parsing, the API call or a non-ok response fails it returns
\* success = false with an empty availableSlots list; success = true is
\* returned only after an ok API response.
C20_NeverThrows ==
    out.op = "findNextAvailable" =>
        /\ ~out.threw
        /\ (~out.parsed.threw /\ out.validationError # NoError) =>
               /\ out.result = Failure(out.validationError)
               /\ out.fetches = 0
        /\ ( \/ out.parsed.threw
             \/ out.fetched.kind = "rejected"
             \/ (out.fetched.kind = "response" /\ ~out.fetched.ok) ) =>
               /\ ~out.result.success
               /\ out.result.availableSlots = <<>>
        /\ ~out.result.success =>
               /\ out.result.availableSlots = <<>>
               /\ out.result.error # NoError
        /\ out.result.success =>
               /\ out.fetches = 1
               /\ out.fetched.kind = "response"
               /\ out.fetched.ok

\* C20 happens: parseDateString threw on a string startFrom, and the call
\* returned the failure without a fetch
C20_Witness ==
    /\ out.op = "findNextAvailable"
    /\ out.options.startFrom.kind = "string"
    /\ out.parsed.threw
    /\ out.result = Failure("invalid date string")
    /\ out.fetches = 0

====
